---- MODULE Spec2Model ----
(***************************************************************************)
(* A model of jello's query evaluation pipeline, jello/lib.py pyquery():   *)
(* wrapping the input document, reading and validating the prelude         *)
(* (.jelloconf.py), splitting the script into setup statements and a final *)
(* expression, executing it, and converting the result back to plain data. *)
(*                                                                         *)
(* Python values are records [t, v, keys, items]: t the type name, v the   *)
(* scalar payload, keys/items the content of a container.  Python source   *)
(* text is modelled at the level of its parsed form: a script is           *)
(* [ok, body], ok telling whether the text parses, body its statements.    *)
(* A prelude file is taken to end with a newline, so that jelloconf+query  *)
(* parses to the prelude's statements followed by the query's.             *)
(***************************************************************************)
EXTENDS Naturals, Sequences, FiniteSets, TLC

VARIABLES
    data,        \* pyquery's argument: the parsed JSON document
    query,       \* pyquery's argument, a script; reassigned at line 273
    initialize,  \* opts.initialize (the -i flag)
    platform,    \* sys.platform
    fs,          \* the file system: path -> script, or Missing
    flagged,     \* the options an explicit flag has set before pyquery runs
    opts0,       \* the option values on entry to pyquery
    opts,        \* the process-wide opts object
    pc,          \* the position in pyquery
    us,          \* the local variable _ (the wrapped document)
    jelloconf,   \* the local jelloconf (a script)
    conf_file,   \* the local conf_file (a path, "" until computed)
    body,        \* ast.parse(jelloconf).body, the loop's sequence
    idx,         \* the loop's position in body
    stdout,      \* the warnings printed, in order
    block,       \* block.body of line 329
    last,        \* the final expression of line 330
    scope,       \* names bound by exec, read by eval
    output,      \* the local output
    error,       \* the exception pyquery raised, NoError if none
    rhsEvals,    \* how many prelude right-hand sides were evaluated
    executed,    \* how many setup statements exec has run
    evaluated    \* whether the final expression was evaluated

vars == <<data, query, initialize, platform, fs, flagged, opts0, opts, pc, us,
          jelloconf, conf_file, body, idx, stdout, block, last, scope, output,
          error, rhsEvals, executed, evaluated>>

----------------------------------------------------------------------------
(* Python values *)

Mk(t, v, keys, items) == [t |-> t, v |-> v, keys |-> keys, items |-> items]
Scalar(t, v) == Mk(t, v, <<>>, <<>>)
PyNone == Scalar("NoneType", "None")
PyTrue == Scalar("bool", "True")
PyFalse == Scalar("bool", "False")
PyInt(s) == Scalar("int", s)
PyStr(s) == Scalar("str", s)
PyList(items) == Mk("list", "", <<>>, items)
PyTuple(items) == Mk("tuple", "", <<>>, items)
PySet(items) == Mk("set", "", <<>>, items)
PyDict(keys, items) == Mk("dict", "", keys, items)
\* a bound method: it carries __self__
Method(name, self) == Mk("method", name, <<>>, <<self>>)
\* a raised exception travelling through an evaluation
Raise(kind, msg) == Mk("error", kind, <<msg>>, <<>>)
IsError(v) == v.t = "error"
Unbound == Scalar("unbound", "")

HasKey(m, k) == \E i \in 1..Len(m.keys) : m.keys[i] = k
KeyPos(m, k) == CHOOSE i \in 1..Len(m.keys) : m.keys[i] = k
ItemAt(m, k) == m.items[KeyPos(m, k)]

\* the first exception among a sequence of evaluated values, or Unbound
FirstError(vs) ==
    IF \E i \in 1..Len(vs) : IsError(vs[i])
    THEN vs[CHOOSE i \in 1..Len(vs) :
                IsError(vs[i]) /\ \A j \in 1..(i - 1) : ~IsError(vs[j])]
    ELSE Unbound

----------------------------------------------------------------------------
(* jello.dotmap.DotMap with _dynamic=False, _prevent_method_masking=True *)

\* the accessor names of a DotMap that a data key may collide with
ReservedNames == {"toDict", "items", "keys", "values", "get", "pop", "copy"}

RECURSIVE DotMap(_)
DotMap(d) ==
    LET wrapElem(e) == IF e.t = "dict" THEN DotMap(e) ELSE e
        wrapVal(v) ==
            IF v.t = "dict" THEN DotMap(v)
            ELSE IF v.t = "list"
                 THEN PyList([j \in 1..Len(v.items) |-> wrapElem(v.items[j])])
                 ELSE v
    IN  Mk("DotMap", "", d.keys, [i \in 1..Len(d.items) |-> wrapVal(d.items[i])])

RECURSIVE toDict(_)
toDict(m) ==
    LET plainElem(e) == IF e.t = "DotMap" THEN toDict(e) ELSE e
        plainVal(v) ==
            IF v.t = "DotMap" THEN toDict(v)
            ELSE IF v.t = "list"
                 THEN PyList([j \in 1..Len(v.items) |-> plainElem(v.items[j])])
                 ELSE v
    IN  PyDict(m.keys, [i \in 1..Len(m.items) |-> plainVal(m.items[i])])

\* node.name: a reserved name yields the accessor, never the data
DotMapGetAttr(m, name) ==
    IF name \in ReservedNames THEN Method(name, m)
    ELSE IF HasKey(m, name) THEN ItemAt(m, name)
    ELSE Raise("AttributeError", name)

\* node[key]
DotMapGetItem(m, key) ==
    IF HasKey(m, key) THEN ItemAt(m, key) ELSE Raise("KeyError", key)

\* node[key] = v
DotMapSetItem(m, key, v) ==
    IF HasKey(m, key)
    THEN [m EXCEPT !.items[KeyPos(m, key)] = v]
    ELSE [m EXCEPT !.keys = Append(@, key), !.items = Append(@, v)]

----------------------------------------------------------------------------
(* Python expressions and their evaluation by eval() inside pyquery *)

ConstE(v) == [op |-> "Const", name |-> "", val |-> v, sub |-> <<>>]
NameE(n) == [op |-> "Name", name |-> n, val |-> PyNone, sub |-> <<>>]
AttrE(e, n) == [op |-> "Attr", name |-> n, val |-> PyNone, sub |-> <<e>>]
IndexE(e, k) == [op |-> "Index", name |-> k, val |-> PyNone, sub |-> <<e>>]
ListE(es) == [op |-> "List", name |-> "", val |-> PyNone, sub |-> es]
TupleE(es) == [op |-> "Tuple", name |-> "", val |-> PyNone, sub |-> es]
SetE(es) == [op |-> "Set", name |-> "", val |-> PyNone, sub |-> es]
DictE(k, e) == [op |-> "Dict", name |-> k, val |-> PyNone, sub |-> <<e>>]

\* the names a script may bind with an assignment statement
OptionBools == {"compact", "raw", "lines", "nulls", "mono", "schema"}
OptionColors == {"keyname_color", "keyword_color", "number_color",
                 "string_color", "arrayid_color", "arraybracket_color"}
OptionNames == OptionBools \cup OptionColors
UserNames == OptionNames \cup {"x"}

\* obj.name on any value
GetAttr(b, name) ==
    IF b.t = "DotMap" THEN DotMapGetAttr(b, name)
    ELSE IF b.t = "dict" /\ name \in {"items", "keys", "values", "get", "pop", "copy"}
         THEN Method(name, b)
         ELSE Raise("AttributeError", name)

\* obj[key] with a string key
GetItem(b, key) ==
    IF b.t = "DotMap" THEN DotMapGetItem(b, key)
    ELSE IF b.t = "dict"
         THEN (IF HasKey(b, key) THEN ItemAt(b, key) ELSE Raise("KeyError", key))
         ELSE Raise("TypeError", key)

\* eval() with no namespace arguments resolves names in pyquery's own frame:
\* the locals _ and data are visible, and so is every name exec has bound.
LookupName(n, env) ==
    IF n = "_" THEN env.us
    ELSE IF n = "data" THEN env.data
    ELSE IF n \in DOMAIN env.scope /\ env.scope[n] # Unbound THEN env.scope[n]
    ELSE Raise("NameError", n)

\* the types a set display cannot hold
Unhashable == {"list", "dict", "set", "DotMap"}

RECURSIVE Eval(_, _)
Eval(e, env) ==
    LET subs == [i \in 1..Len(e.sub) |-> Eval(e.sub[i], env)]
        bad == FirstError(subs)
    IN  IF e.op = "Const" THEN e.val
        ELSE IF e.op = "Name" THEN LookupName(e.name, env)
        ELSE IF bad # Unbound THEN bad
        ELSE IF e.op = "Attr" THEN GetAttr(subs[1], e.name)
        ELSE IF e.op = "Index" THEN GetItem(subs[1], e.name)
        ELSE IF e.op = "List" THEN PyList(subs)
        ELSE IF e.op = "Tuple" THEN PyTuple(subs)
        ELSE IF e.op = "Set"
        THEN (IF \E i \in 1..Len(subs) : subs[i].t \in Unhashable
              THEN Raise("TypeError", "unhashable type")
              ELSE PySet(subs))
        ELSE PyDict(<<e.name>>, subs)

----------------------------------------------------------------------------
(* Scripts: Python source text in parsed form *)

AssignS(target, e) == [kind |-> "Assign", target |-> target, value |-> e]
\* _[key] = e: an assignment whose target is a subscript, not a name
AssignSubS(key, e) == [kind |-> "AssignSub", target |-> key, value |-> e]
ExprS(e) == [kind |-> "Expr", target |-> "", value |-> e]
PassS == [kind |-> "Pass", target |-> "", value |-> ConstE(PyNone)]

Script(ok, stmts) == [exists |-> TRUE, ok |-> ok, body |-> stmts]
EmptyScript == Script(TRUE, <<>>)
BadSyntax == Script(FALSE, <<>>)
Missing == [exists |-> FALSE, ok |-> FALSE, body |-> <<>>]

\* jelloconf + query, the prelude text ending with a newline
Concat(a, b) == Script(a.ok /\ b.ok, a.body \o b.body)

\* the node kinds of ast that carry a .value attribute
HasValueAttr(stmt) == stmt.kind \in {"Expr", "Assign", "AssignSub"}

NoError == [kind |-> "", msg |-> "", line |-> 0]
Exc(kind, msg, line) == [kind |-> kind, msg |-> msg, line |-> line]
\* the exception an evaluation raised, as pyquery's caller sees it
ExcOf(v, line) == Exc(v.v, v.keys[1], line)

----------------------------------------------------------------------------
(* The environment of the process *)

Platforms == {"win32", "linux"}
Environ == [APPDATA |-> "C:\\Users\\u\\AppData", HOME |-> "/home/u"]
PathJoin(plat, dir, name) ==
    IF plat = "win32" THEN dir \o "\\" \o name ELSE dir \o "/" \o name
Paths == {PathJoin("win32", Environ.APPDATA, ".jelloconf.py"),
          PathJoin("linux", Environ.HOME, ".jelloconf.py")}

\* DefaultConfFile without the platform test: HOME on every platform
DefaultConfFileHomeOnly(plat) == PathJoin("linux", Environ.HOME, ".jelloconf.py")

\* lines 262-265
DefaultConfFile(plat) ==
    IF plat = "win32"
    THEN PathJoin(plat, Environ.APPDATA, ".jelloconf.py")
    ELSE PathJoin(plat, Environ.HOME, ".jelloconf.py")

NotFoundMsg(path) == "-i used and initialization file not found: " \o path

----------------------------------------------------------------------------
(* The prelude loop, lines 277-326 *)

valid_colors == {"black", "red", "green", "yellow", "blue", "magenta", "cyan",
                 "gray", "brightblack", "brightred", "brightgreen",
                 "brightyellow", "brightblue", "brightmagenta", "brightcyan",
                 "white"}

\* isinstance(option, bool)
IsBool(v) == v.t = "bool"
\* color_config in valid_colors
InValidColors(v) == v.t = "str" /\ v.v \in valid_colors

\* lines 308-311: one non-bool among the six unsets all six
ValidateOptions(o) ==
    LET warn == \E n \in OptionBools : ~IsBool(o[n])
    IN  [opts |-> IF warn
                  THEN [n \in OptionNames |-> IF n \in OptionBools THEN PyNone ELSE o[n]]
                  ELSE o,
         warn |-> warn]

\* lines 313-319: one bad color among the six unsets all six
ValidateColors(o) ==
    LET warn == \E n \in OptionColors : ~InValidColors(o[n]) /\ o[n] # PyNone
    IN  [opts |-> IF warn
                  THEN [n \in OptionNames |-> IF n \in OptionColors THEN PyNone ELSE o[n]]
                  ELSE o,
         warn |-> warn]

\* lines 304-326
Validate(o) ==
    LET a == ValidateOptions(o)
        b == ValidateColors(a.opts)
    IN  [opts |-> b.opts,
         out |-> (IF a.warn THEN <<"options">> ELSE <<>>)
                 \o (IF b.warn THEN <<"colors">> ELSE <<>>)]

\* One iteration of the loop of line 277 on statement stmt:
\* the new opts, what it prints, the exception it raises, the evaluations made.
PreludeIter(o, stmt, env) ==
    LET same == [opts |-> o, out |-> <<>>, error |-> NoError, evals |-> 0]
    IN  IF stmt.kind \notin {"Assign", "AssignSub"} THEN same
        ELSE IF stmt.kind = "AssignSub"
        THEN [same EXCEPT !.error = Exc("AttributeError", "id", 279)]
        ELSE IF stmt.target \notin OptionNames
        THEN LET r == Validate(o)
             IN  [opts |-> r.opts, out |-> r.out, error |-> NoError, evals |-> 0]
        ELSE LET v == Eval(stmt.value, env)
                 r == Validate([o EXCEPT ![stmt.target] = v])
             IN  IF IsError(v)
                 THEN [same EXCEPT !.error = ExcOf(v, 280), !.evals = 1]
                 ELSE [opts |-> r.opts, out |-> r.out, error |-> NoError, evals |-> 1]

\* The whole loop of line 277 over the statements b, from acc on
RECURSIVE RunPrelude(_, _, _)
RunPrelude(acc, b, env) ==
    IF b = <<>> \/ acc.error # NoError THEN acc
    ELSE LET r == PreludeIter(acc.opts, Head(b), env)
         IN  RunPrelude([opts |-> r.opts, out |-> acc.out \o r.out, error |-> r.error],
                        Tail(b), env)

----------------------------------------------------------------------------
(* pyquery, step by step *)

\* lines 248-256
WrapData(d) ==
    IF d.t = "list"
    THEN PyList([i \in 1..Len(d.items) |->
                    IF d.items[i].t = "dict" THEN DotMap(d.items[i]) ELSE d.items[i]])
    ELSE IF d.t = "dict" THEN DotMap(d)
    ELSE d

Env == [us |-> us, data |-> data, scope |-> scope]

Fail(e) == pc' = "raised" /\ error' = e

Wrap ==
    /\ pc = "wrap"
    /\ us' = WrapData(data)
    /\ pc' = "conf"
    /\ UNCHANGED <<data, query, initialize, platform, fs, flagged, opts0, opts,
                   jelloconf, conf_file, body, idx, stdout, block, last, scope,
                   output, error, rhsEvals, executed, evaluated>>

\* lines 258-274
ReadConf ==
    /\ pc = "conf"
    /\ LET path == IF initialize THEN DefaultConfFile(platform) ELSE ""
           text == IF initialize THEN fs[path] ELSE EmptyScript
       IN  /\ conf_file' = path
           /\ IF text.exists
              THEN /\ jelloconf' = text
                   /\ query' = Concat(text, query)
                   /\ pc' = "parse_conf"
                   /\ error' = error
              ELSE /\ Fail(Exc("FileNotFoundError", NotFoundMsg(path), 271))
                   /\ UNCHANGED <<jelloconf, query>>
    /\ UNCHANGED <<data, initialize, platform, fs, flagged, opts0, opts, us,
                   body, idx, stdout, block, last, scope, output, rhsEvals,
                   executed, evaluated>>

\* line 277, ast.parse(jelloconf)
ParseConf ==
    /\ pc = "parse_conf"
    /\ IF jelloconf.ok
       THEN /\ body' = jelloconf.body
            /\ idx' = 1
            /\ pc' = IF jelloconf.body = <<>> THEN "parse" ELSE "prelude"
            /\ error' = error
       ELSE /\ Fail(Exc("SyntaxError", "jelloconf", 277))
            /\ UNCHANGED <<body, idx>>
    /\ UNCHANGED <<data, query, initialize, platform, fs, flagged, opts0, opts,
                   us, jelloconf, conf_file, stdout, block, last, scope, output,
                   rhsEvals, executed, evaluated>>

\* lines 277-326, one statement of the prelude
PreludeStep ==
    /\ pc = "prelude"
    /\ idx <= Len(body)
    /\ LET r == PreludeIter(opts, body[idx], Env)
       IN  /\ rhsEvals' = rhsEvals + r.evals
           /\ IF r.error # NoError
              THEN /\ Fail(r.error)
                   /\ UNCHANGED <<opts, stdout, idx>>
              ELSE /\ opts' = r.opts
                   /\ stdout' = stdout \o r.out
                   /\ idx' = idx + 1
                   /\ pc' = IF idx = Len(body) THEN "parse" ELSE "prelude"
                   /\ error' = error
    /\ UNCHANGED <<data, query, initialize, platform, fs, flagged, opts0, us,
                   jelloconf, conf_file, body, block, last, scope, output,
                   executed, evaluated>>

\* line 329
ParseQuery ==
    /\ pc = "parse"
    /\ IF query.ok
       THEN /\ block' = query.body
            /\ pc' = "pop"
            /\ error' = error
       ELSE /\ Fail(Exc("SyntaxError", "query", 329))
            /\ block' = block
    /\ UNCHANGED <<data, query, initialize, platform, fs, flagged, opts0, opts,
                   us, jelloconf, conf_file, body, idx, stdout, last, scope,
                   output, rhsEvals, executed, evaluated>>

\* line 330: block.body.pop().value, whatever kind of node the last one is
PopLast ==
    /\ pc = "pop"
    /\ IF block = <<>>
       THEN /\ Fail(Exc("IndexError", "pop from empty list", 330))
            /\ UNCHANGED <<block, last>>
       ELSE LET node == block[Len(block)]
            IN  /\ block' = SubSeq(block, 1, Len(block) - 1)
                /\ IF HasValueAttr(node)
                   THEN /\ last' = node.value
                        /\ pc' = IF Len(block) = 1 THEN "eval" ELSE "exec"
                        /\ error' = error
                   ELSE /\ Fail(Exc("AttributeError", "value", 330))
                        /\ last' = last
    /\ UNCHANGED <<data, query, initialize, platform, fs, flagged, opts0, opts,
                   us, jelloconf, conf_file, body, idx, stdout, scope, output,
                   rhsEvals, executed, evaluated>>

\* The effect of one setup statement run by exec: the scope, the document, the
\* exception.  exec() without namespaces writes into the frame's locals
\* mapping, which the eval() of line 332 reads back (CPython up to 3.12).
ExecEffect(stmt, env) ==
    LET v == Eval(stmt.value, env)
        same == [scope |-> env.scope, us |-> env.us, error |-> NoError]
    IN  IF stmt.kind = "Pass" THEN same
        ELSE IF IsError(v) THEN [same EXCEPT !.error = ExcOf(v, 331)]
        ELSE IF stmt.kind = "Assign"
        THEN [same EXCEPT !.scope = [env.scope EXCEPT ![stmt.target] = v]]
        ELSE IF stmt.kind = "AssignSub"
        THEN (IF env.us.t = "DotMap"
              THEN [same EXCEPT !.us = DotMapSetItem(env.us, stmt.target, v)]
              ELSE [same EXCEPT !.error = Exc("TypeError", stmt.target, 331)])
        ELSE same

\* line 331, one setup statement
ExecStmt ==
    /\ pc = "exec"
    /\ block # <<>>
    /\ LET r == ExecEffect(Head(block), Env)
       IN  /\ executed' = executed + 1
           /\ block' = Tail(block)
           /\ scope' = r.scope
           /\ us' = r.us
           /\ IF r.error # NoError
              THEN Fail(r.error)
              ELSE /\ pc' = IF Len(block) = 1 THEN "eval" ELSE "exec"
                   /\ error' = error
    /\ UNCHANGED <<data, query, initialize, platform, fs, flagged, opts0, opts,
                   jelloconf, conf_file, body, idx, stdout, last, output,
                   rhsEvals, evaluated>>

\* line 332
EvalLast ==
    /\ pc = "eval"
    /\ evaluated' = TRUE
    /\ LET v == Eval(last, Env)
       IN  IF IsError(v)
           THEN Fail(ExcOf(v, 332)) /\ output' = output
           ELSE /\ output' = v
                /\ pc' = "normalize"
                /\ error' = error
    /\ UNCHANGED <<data, query, initialize, platform, fs, flagged, opts0, opts,
                   us, jelloconf, conf_file, body, idx, stdout, block, last,
                   scope, rhsEvals, executed>>

\* lines 335-339
Unwrap(out) ==
    IF out.t = "list"
    THEN PyList([i \in 1..Len(out.items) |->
                    IF out.items[i].t = "DotMap" THEN toDict(out.items[i])
                    ELSE out.items[i]])
    ELSE IF out.t = "DotMap" THEN toDict(out)
    ELSE out

\* HasSelf with the test of line 342 left out
HasSelfDropped(v) == FALSE

\* line 342: hasattr(output, '__self__')
HasSelf(v) == v.t = "method"

\* lines 334-345
Normalize ==
    /\ pc = "normalize"
    /\ LET out == Unwrap(output)
       IN  /\ output' = out
           /\ IF HasSelf(out)
              THEN Fail(Exc("ValueError",
                            "Reserved key name. Use bracket notation to access this key.",
                            343))
              ELSE pc' = "returned" /\ error' = error
    /\ UNCHANGED <<data, query, initialize, platform, fs, flagged, opts0, opts,
                   us, jelloconf, conf_file, body, idx, stdout, block, last,
                   scope, rhsEvals, executed, evaluated>>

----------------------------------------------------------------------------
(* create_json, lines 173-243: whether it raises on pyquery's result *)

\* the truth value of an option, as the tests of lines 177 and 185 take it
Truthy(v) == v \notin {PyNone, PyFalse, PyStr(""), PyInt("0")}

\* json.dumps succeeds: every nested value is of a serialisable type
\* (a DotMap, a mapping type, passes the isinstance(data, dict) test)
RECURSIVE JsonDumpsOk(_)
JsonDumpsOk(v) ==
    \/ v.t \in {"NoneType", "bool", "int", "str"}
    \/ /\ v.t \in {"list", "tuple", "dict", "DotMap"}
       /\ \A i \in 1..Len(v.items) : JsonDumpsOk(v.items[i])

CreateJsonRaises(d, o) ==
    IF d.t \in {"dict", "DotMap"} THEN ~JsonDumpsOk(d)
    ELSE IF d.t = "list"
    THEN (IF ~Truthy(o["lines"]) THEN ~JsonDumpsOk(d)
          ELSE IF \E i \in 1..Len(d.items) : d.items[i].t = "list" THEN TRUE
          ELSE \E i \in 1..Len(d.items) :
                  d.items[i].t \in {"dict", "DotMap"} /\ ~JsonDumpsOk(d.items[i]))
    ELSE d.t \notin {"NoneType", "bool", "int", "str"}

Next ==
    \/ Wrap
    \/ ReadConf
    \/ ParseConf
    \/ PreludeStep
    \/ ParseQuery
    \/ PopLast
    \/ ExecStmt
    \/ EvalLast
    \/ Normalize

----------------------------------------------------------------------------
(* The inputs explored *)

MaxDepth == 2     \* nesting depth of the input documents
MaxSetup == 1     \* setup statements in front of a query's last statement
MaxPrelude == 2   \* statements of a prelude file
MaxFlags == 1     \* options set by explicit flags before pyquery runs

RECURSIVE SeqsUpTo(_, _)
SeqsUpTo(S, n) ==
    IF n = 0 THEN {<<>>}
    ELSE LET P == SeqsUpTo(S, n - 1)
         IN  P \cup {Append(q, x) : q \in P, x \in S}

DocKeys == {"a", "toDict"}
DocScalars == {PyTrue, PyStr("red")}

RECURSIVE JSONValues(_)
JSONValues(d) ==
    IF d = 0 THEN DocScalars
    ELSE LET S == JSONValues(d - 1)
         IN  S \cup {PyDict(<<k>>, <<v>>) : k \in DocKeys, v \in S}
               \cup {PyList(<<v>>) : v \in S}

Docs == JSONValues(MaxDepth)

ExprBase == {NameE("_"), NameE("x")}
ExprStep(S) ==
    {AttrE(e, k) : e \in S, k \in DocKeys}
      \cup {IndexE(e, k) : e \in S, k \in DocKeys}
      \cup {ListE(<<e>>) : e \in S} \cup {TupleE(<<e>>) : e \in S}
      \cup {SetE(<<e>>) : e \in S} \cup {DictE("k", e) : e \in S}
ShallowExprs == ExprBase \cup ExprStep(ExprBase)
DeepExprs == ShallowExprs \cup ExprStep(ShallowExprs)

SetupStmts == {AssignS("x", NameE("_")), AssignSubS("toDict", ConstE(PyInt("1"))),
               ExprS(NameE("x")), PassS}
LastStmts == {ExprS(NameE("_")), AssignS("x", ConstE(PyInt("1"))),
              AssignSubS("a", ConstE(PyInt("1"))), PassS}

\* queries of one expression, and queries with setup statements in front
Queries ==
    {Script(TRUE, <<ExprS(e)>>) : e \in DeepExprs}
      \cup {Script(TRUE, Append(su, ExprS(e))) :
                su \in SeqsUpTo(SetupStmts, MaxSetup), e \in ShallowExprs}
      \cup {Script(TRUE, Append(su, l)) :
                su \in SeqsUpTo(SetupStmts, MaxSetup), l \in LastStmts}
      \cup {EmptyScript, BadSyntax}

SmallQueries == {Script(TRUE, <<ExprS(NameE("_"))>>),
                 Script(TRUE, <<AssignS("x", ConstE(PyInt("1")))>>),
                 Script(TRUE, <<PassS>>),
                 BadSyntax}

PreludeTargets == {"compact", "raw", "keyname_color", "x"}
PreludeValues == {ConstE(PyTrue), ConstE(PyFalse), ConstE(PyStr("yes")), ConstE(PyStr("red")),
                  ConstE(PyStr("purple")), NameE("_")}
PreludeStmts == {AssignS(t, e) : t \in PreludeTargets, e \in PreludeValues}
                  \cup {PassS}
Preludes == {Script(TRUE, b) : b \in SeqsUpTo(PreludeStmts, MaxPrelude)}

SmallConfs == {Missing, EmptyScript, BadSyntax,
               Script(TRUE, <<AssignS("compact", ConstE(PyTrue))>>),
               Script(TRUE, <<AssignSubS("a", ConstE(PyTrue))>>)}

FlagSets == {F \in SUBSET OptionBools : Cardinality(F) <= MaxFlags}

\* an explicit flag turns its option on; every other option starts unset
EntryOpts(F) == [n \in OptionNames |-> IF n \in F THEN PyTrue ELSE PyNone]

----------------------------------------------------------------------------
(* Specifications *)

\* the state on entry to pyquery
InitLocals ==
    /\ opts0 = EntryOpts(flagged)
    /\ opts = opts0
    /\ pc = "wrap"
    /\ us = Unbound
    /\ jelloconf = EmptyScript
    /\ conf_file = ""
    /\ body = <<>>
    /\ idx = 0
    /\ stdout = <<>>
    /\ block = <<>>
    /\ last = ConstE(PyNone)
    /\ scope = [n \in UserNames |-> Unbound]
    /\ output = PyNone
    /\ error = NoError
    /\ rhsEvals = 0
    /\ executed = 0
    /\ evaluated = FALSE

\* documents and queries at large, no prelude
InitQueries ==
    /\ data \in Docs
    /\ query \in Queries
    /\ initialize = FALSE
    /\ platform = "linux"
    /\ fs = [p \in Paths |-> Missing]
    /\ flagged = {}
    /\ InitLocals

\* the prelude file present or not at either path, on either platform
InitFiles ==
    /\ data \in DocScalars
    /\ query \in SmallQueries
    /\ initialize \in BOOLEAN
    /\ platform \in Platforms
    /\ fs \in [Paths -> SmallConfs]
    /\ flagged \in FlagSets
    /\ InitLocals

\* preludes at large, read from the platform's default path
InitPreludes ==
    /\ data \in DocScalars
    /\ query \in SmallQueries
    /\ initialize = TRUE
    /\ platform \in Platforms
    /\ \E c \in Preludes :
          fs = [p \in Paths |-> IF p = DefaultConfFile(platform) THEN c ELSE Missing]
    /\ flagged \in FlagSets
    /\ InitLocals

Init == InitQueries \/ InitFiles

Spec == Init /\ [][Next]_vars

SpecPrelude == InitPreludes /\ [][Next]_vars

----------------------------------------------------------------------------
(* Vocabulary of the properties *)

Terminal == pc \in {"returned", "raised"}

\* prelude processing has just ended: the loop of line 277 is over
PreludeEnded == pc = "parse"

\* the script pyquery splits at line 330, once jelloconf + query is formed
ScriptFormed == pc \notin {"wrap", "conf"} /\ error.line # 271

\* the script's last top-level node is not an expression statement
LastNotExpr == query.body = <<>> \/ query.body[Len(query.body)].kind # "Expr"

\* the value the prelude's assignments leave in option n, were nothing reset:
\* that of the last assignment to n, or the value on entry
Assigned(n) ==
    LET at == {i \in 1..Len(body) : body[i].kind = "Assign" /\ body[i].target = n}
    IN  IF at = {} THEN opts0[n]
        ELSE Eval(body[CHOOSE i \in at : \A j \in at : j <= i].value, Env)

BoolOrUnset(v) == IsBool(v) \/ v = PyNone
ColorOrUnset(v) == InValidColors(v) \/ v = PyNone
Printed(w) == Cardinality({i \in 1..Len(stdout) : stdout[i] = w})

\* the plain JSON value domain: null, booleans, numbers, strings, sequences, maps
RECURSIVE IsPlainJSON(_)
IsPlainJSON(v) ==
    \/ v.t \in {"NoneType", "bool", "int", "str"}
    \/ /\ v.t \in {"list", "tuple", "dict"}
       /\ \A i \in 1..Len(v.items) : IsPlainJSON(v.items[i])

\* every statement in front of the last one binds a constant or does nothing
SetupHarmless ==
    \A i \in 1..(Len(query.body) - 1) :
        \/ query.body[i].kind = "Pass"
        \/ query.body[i].kind = "Assign" /\ query.body[i].value.op = "Const"

\* the script ends in the expression e and nothing before it touches the document
Returns(e) ==
    /\ ScriptFormed
    /\ query.ok
    /\ query.body # <<>>
    /\ query.body[Len(query.body)] = ExprS(e)
    /\ SetupHarmless

----------------------------------------------------------------------------
(* The claims *)

\* C1: a script whose last top-level node is not an expression fails at the
\* split of line 330, with no setup statement run, nothing of the last
\* statement evaluated and no value returned.
C1_ShapeErrorBeforeExecution ==
    (Terminal /\ ScriptFormed /\ query.ok /\ error.line \notin {277, 279, 280}
       /\ LastNotExpr)
    => (pc = "raised" /\ error.line = 330 /\ executed = 0 /\ ~evaluated)

\* C2: a prelude that leaves a boolean option neither boolean nor unset ends
\* with all six boolean options unset and the boolean warning printed exactly
\* once, however many assignments it holds.
C2_BoolResetWarnsOnce ==
    (PreludeEnded /\ \E n \in OptionBools : ~BoolOrUnset(Assigned(n)))
    => (/\ \A n \in OptionBools : opts[n] = PyNone
        /\ Printed("options") = 1)

\* C3: a prelude that leaves a color option neither a named color nor unset,
\* every boolean option being boolean or unset, ends with all six colors unset,
\* the boolean options as assigned, and exactly one warning in total.
C3_ColorResetOnly ==
    (/\ PreludeEnded
     /\ \E n \in OptionColors : ~ColorOrUnset(Assigned(n))
     /\ \A n \in OptionBools : BoolOrUnset(Assigned(n)))
    => (/\ \A n \in OptionColors : opts[n] = PyNone
        /\ \A n \in OptionBools : opts[n] = Assigned(n)
        /\ Len(stdout) = 1)

\* C4: on a document with a key that is a reserved accessor name, reading the
\* key as an attribute and returning it fails with the reserved-name error of
\* line 343, and reading it by key-indexing returns the document's own plain
\* value of that key.
C4_ReservedKey ==
    \A k \in ReservedNames :
        (Terminal /\ data.t = "dict" /\ HasKey(data, k))
        => /\ Returns(AttrE(NameE("_"), k))
                => (pc = "raised" /\ error.kind = "ValueError" /\ error.line = 343)
           /\ Returns(IndexE(NameE("_"), k))
                => (pc = "returned" /\ output = ItemAt(data, k)
                    /\ IsPlainJSON(output))

\* C4 witness: the attribute read of the reserved key "toDict" has been refused
C4_Witness ==
    /\ pc = "raised"
    /\ error.line = 343
    /\ data.t = "dict"
    /\ HasKey(data, "toDict")
    /\ query.body = <<ExprS(AttrE(NameE("_"), "toDict"))>>

\* C5: whatever pyquery returns, unless the serialiser create_json then
\* refuses it with an error, is a plain JSON value: no DotMap at any depth and
\* no other non-JSON type.
C5_ReturnsPlainJSON ==
    (pc = "returned" /\ ~CreateJsonRaises(output, opts)) => IsPlainJSON(output)

\* C6: an option an explicit flag set before pyquery runs still holds the
\* flag's value when prelude processing ends.
C6_FlagsWin == PreludeEnded => \A n \in flagged : opts[n] = opts0[n]

\* C7: with -i given and no file at the platform's default path, pyquery
\* raises the FileNotFoundError naming that path, with no option modified and
\* nothing parsed, evaluated or executed.
C7_MissingPrelude ==
    LET expected == IF platform = "win32"
                    THEN "C:\\Users\\u\\AppData\\.jelloconf.py"
                    ELSE "/home/u/.jelloconf.py"
    IN  (initialize /\ ~fs[expected].exists /\ pc \notin {"wrap", "conf"})
        => /\ pc = "raised"
           /\ error.kind = "FileNotFoundError"
           /\ error.msg = "-i used and initialization file not found: " \o expected
           /\ opts = opts0
           /\ body = <<>> /\ block = <<>>
           /\ rhsEvals = 0 /\ executed = 0 /\ ~evaluated

\* C7 witness: on win32 the file is missing under APPDATA though one exists
\* under HOME, and pyquery has raised
C7_Witness ==
    /\ pc = "raised"
    /\ error.kind = "FileNotFoundError"
    /\ platform = "win32"
    /\ fs["/home/u/.jelloconf.py"].exists
    /\ flagged # {}

\* C8: a prelude after whose last assignment every boolean option is boolean
\* or unset has no boolean option reset, every assigned boolean keeping its
\* value, and prints no boolean warning.
C8_UnsetIsValid ==
    (PreludeEnded /\ \A n \in OptionBools : BoolOrUnset(Assigned(n)))
    => (/\ \A n \in OptionBools : opts[n] = Assigned(n)
        /\ Printed("options") = 0)

\* C9: a script that does not parse, or whose last node is not an expression,
\* makes pyquery fail at the parse or the split with no setup statement run,
\* no prelude right-hand side evaluated and the options as on entry.
C9_FailsBeforeAnyExecution ==
    (Terminal /\ ScriptFormed /\ (~query.ok \/ LastNotExpr))
    => (/\ pc = "raised"
        /\ error.line \in {277, 329, 330}
        /\ executed = 0
        /\ rhsEvals = 0
        /\ opts = opts0)

\* C10: prelude processing gives the same options and the same warnings
\* whatever the input document is.
C10_PreludeIgnoresDocument ==
    PreludeEnded =>
        \A d \in DocScalars :
            RunPrelude([opts |-> opts0, out |-> <<>>, error |-> NoError], body,
                       [us |-> WrapData(d), data |-> d, scope |-> scope])
              = [opts |-> opts, out |-> stdout, error |-> NoError]

====
